---- MODULE Spec2Model ----
(***************************************************************************)
(* caffe2/perfkernels/embedding_lookup.cc                                  *)
(*                                                                         *)
(* EmbeddingLookup (the dispatch facade generated by                       *)
(* EMBEDDING_SPECIALIZATION) and EmbeddingLookupGenericSlow (the reference *)
(* reduction), as a state machine over one call.                           *)
(*                                                                         *)
(* Buffers are 0-based functions, as the C arrays are.  Element values are *)
(* exact rationals <<num, den>> (den > 0, lowest terms): the kernel's      *)
(* float arithmetic is modelled without rounding.  CAFFE_ENFORCE failures  *)
(* end the call in pc = "failed" with err naming the check that threw.     *)
(***************************************************************************)
EXTENDS Integers, Sequences, FiniteSets, TLC

\* ---- bounds of the explored inputs -------------------------------------
MaxBlock == 2
MaxOut == 2
MaxIndex == 2
MaxData == 2
MaxLen == 2

VARIABLES
  block_size, output_size, index_size, data_size,  \* const TIndex arguments
  input,                 \* const InType*  : data_size * block_size elements
  indices,               \* const IndexType* : index_size elements
  lengths,               \* const int* : output_size elements
  weights,               \* const float* : [null, at]
  scale_bias,            \* const float* : [null, at], 2 * data_size elements
  normalize_by_lengths,  \* bool
  fill,                  \* what the caller's buffer holds before the call
  avx2_fma,              \* GetCpuId().avx2() && GetCpuId().fma()
  accel_applies,         \* the accelerated kernel accepts this block_size
  out,                   \* the caller's output buffer
  outp,                  \* the local pointer `out`, as an offset
  current, m, i,         \* locals of EmbeddingLookupGenericSlow
  pc, err,
  runs,                  \* implementations that were run, in order
  written                \* offsets of the buffer stored to so far

args == <<block_size, output_size, index_size, data_size, input, indices,
          lengths, weights, scale_bias, normalize_by_lengths, fill,
          avx2_fma, accel_applies>>
vars == <<args, out, outp, current, m, i, pc, err, runs, written>>

\* ---- exact arithmetic ---------------------------------------------------
Abs(x) == IF x < 0 THEN -x ELSE x

RECURSIVE GCD(_, _)
GCD(a, b) == IF b = 0 THEN a ELSE GCD(b, a % b)

Rat(n, d) ==
  LET g == GCD(Abs(n), Abs(d))
      s == IF d < 0 THEN -1 ELSE 1
  IN  <<(s * n) \div g, (s * d) \div g>>

Int2Rat(n) == <<n, 1>>
RatAdd(x, y) == Rat(x[1] * y[2] + y[1] * x[2], x[2] * y[2])
RatMul(x, y) == Rat(x[1] * y[1], x[2] * y[2])
Zero == Int2Rat(0)

\* ---- the buffers a caller can pass --------------------------------------
OutLen == output_size * block_size
InputOf(ds, bs) == [k \in 0 .. ds * bs - 1 |-> k + 1]
WeightsOf(n) == [c \in 0 .. n - 1 |-> c + 2]
ScaleBiasOf(ds) == [k \in 0 .. 2 * ds - 1 |-> k + 2]
Null == [null |-> TRUE, at |-> <<>>]
Ptr(f) == [null |-> FALSE, at |-> f]

\* what every call starts from: buffer untouched, nothing run yet
Entry(at) ==
  /\ input = InputOf(data_size, block_size)
  /\ out = [k \in 0 .. OutLen |-> Int2Rat(fill)]
  /\ outp = 0
  /\ current = 0
  /\ m = 0
  /\ i = 0
  /\ pc = at
  /\ err = "none"
  /\ runs = <<>>
  /\ written = {}

Sizes ==
  /\ block_size \in 0 .. MaxBlock
  /\ output_size \in 0 .. MaxOut
  /\ index_size \in 0 .. MaxIndex
  /\ data_size \in 0 .. MaxData

\* index data as the contract asks for it: rows of the table, lengths >= 0
\* (their sum is free)
WellFormed ==
  /\ indices \in [0 .. index_size - 1 -> 0 .. data_size - 1]
  /\ lengths \in [0 .. output_size - 1 -> 0 .. MaxLen]

\* index data as an int buffer can hold it
Arbitrary ==
  /\ indices \in [0 .. index_size - 1 -> -1 .. data_size]
  /\ lengths \in [0 .. output_size - 1 -> -1 .. MaxLen]

\* calls of the reference engine (through BASE_DO, on a CPU without
\* AVX2/FMA) on well-formed index data, with every combination of options
Init ==
  /\ Sizes
  /\ WellFormed
  /\ weights \in {Null, Ptr(WeightsOf(index_size))}
  /\ scale_bias \in {Null, Ptr(ScaleBiasOf(data_size))}
  /\ normalize_by_lengths \in BOOLEAN
  /\ fill \in {0, 9}
  /\ avx2_fma = FALSE
  /\ accel_applies = FALSE
  /\ Entry("base_do")

\* calls of the reference engine on arbitrary index data
InitChecks ==
  /\ Sizes
  /\ Arbitrary
  /\ weights = Null
  /\ scale_bias = Null
  /\ normalize_by_lengths \in BOOLEAN
  /\ fill = 9
  /\ avx2_fma = FALSE
  /\ accel_applies = FALSE
  /\ Entry("base_do")

\* calls of the facade EmbeddingLookup on either kind of CPU
InitFacade ==
  /\ Sizes
  /\ WellFormed
  /\ weights = Null
  /\ scale_bias = Null
  /\ normalize_by_lengths \in BOOLEAN
  /\ fill = 9
  /\ avx2_fma \in BOOLEAN
  /\ accel_applies \in (IF avx2_fma THEN BOOLEAN ELSE {FALSE})
  /\ Entry("call")

\* ---- EmbeddingLookupGenericSlow, lines 29-93 ----------------------------
locals == <<outp, current, m, i>>

\* off by one: one element past the slice
SliceInclusive == outp .. outp + block_size

\* the block_size elements at the local pointer `out`
Slice == outp .. outp + block_size - 1

\* CAFFE_ENFORCE*: a failed check throws out of the call
Throw(e) == pc' = "failed" /\ err' = e

\* the slice is not cleared
MemsetNone(o) == o

\* memset(out, 0, sizeof(OutType) * block_size)
Memset(o) == [k \in DOMAIN o |-> IF k \in Slice THEN Zero ELSE o[k]]

\* <= for <
CursorInRangeInclusive == current <= index_size

\* CAFFE_ENFORCE_LT(current, index_size)
CursorInRange == current < index_size

\* 0 < idx for 0 <= idx
IndexInRangeStrict(idx) == 0 < idx /\ idx < data_size

\* CAFFE_ENFORCE(0 <= idx && idx < data_size, ...)
IndexInRange(idx) == 0 <= idx /\ idx < data_size

\* float w = 1.f; if (weights) w = weights[current];
Weight(c) == IF weights.null THEN 1 ELSE weights.at[c]

\* the bias taken from the weight after it was rescaled
BiasRescaled(w, idx) ==
  IF scale_bias.null THEN 0
  ELSE w * scale_bias.at[2 * idx] * scale_bias.at[2 * idx + 1]

\* b = w * scale_bias[2 * indices[current] + 1]
Bias(w, idx) == IF scale_bias.null THEN 0 ELSE w * scale_bias.at[2 * idx + 1]

\* w = w * scale_bias[2 * indices[current]]
ScaledWeight(w, idx) == IF scale_bias.null THEN w ELSE w * scale_bias.at[2 * idx]

\* out[j] = w * x[j] for out[j] += w * x[j]
TypedAxpyAssign(w, idx, o) ==
  [k \in DOMAIN o |->
     IF k \in Slice
       THEN Int2Rat(w * input[block_size * idx + (k - outp)])
       ELSE o[k]]

\* TypedAxpy(block_size, w, input + block_size * idx, out): out[j] += w * x[j]
TypedAxpy(w, idx, o) ==
  [k \in DOMAIN o |->
     IF k \in Slice
       THEN RatAdd(o[k], Int2Rat(w * input[block_size * idx + (k - outp)]))
       ELSE o[k]]

\* out_vector = out_vector + b
AddBias(b, o) ==
  [k \in DOMAIN o |-> IF k \in Slice THEN RatAdd(o[k], Int2Rat(b)) ELSE o[k]]

\* the cursor for the group's length
ScaleFactorCursor(len) == Rat(1, current)

\* 1.f / lengths[m]
ScaleFactor(len) == Rat(1, len)

\* math::Scale(block_size, alpha, out, out, nullptr)
Scale(alpha, o) ==
  [k \in DOMAIN o |-> IF k \in Slice THEN RatMul(o[k], alpha) ELSE o[k]]

\* for (int m = 0; m < output_size; ++m) { memset(...); for (int i = 0; ...
EnterGroup ==
  /\ pc = "for_m"
  /\ m < output_size
  /\ out' = Memset(out)
  /\ written' = written \cup Slice
  /\ i' = 0
  /\ pc' = "for_i"
  /\ UNCHANGED <<args, outp, current, m, err, runs>>

\* m == output_size: the loop over the groups is left
ExitGroups ==
  /\ pc = "for_m"
  /\ ~(m < output_size)
  /\ pc' = "enforce_eq"
  /\ UNCHANGED <<args, out, locals, err, runs, written>>

\* i < lengths[m]; CAFFE_ENFORCE_LT(current, index_size)
EnforceCursor ==
  /\ pc = "for_i"
  /\ i < lengths[m]
  /\ IF CursorInRange
       THEN pc' = "enforce_idx" /\ err' = err
       ELSE Throw("CursorOverrunError")
  /\ UNCHANGED <<args, out, locals, runs, written>>

\* an out-of-range entry is skipped, not reported
EnforceIndexSkip ==
  /\ pc = "enforce_idx"
  /\ IF 0 <= indices[current] /\ indices[current] < data_size
       THEN pc' = "axpy" /\ UNCHANGED <<current, i>>
       ELSE pc' = "for_i" /\ current' = current + 1 /\ i' = i + 1
  /\ UNCHANGED <<args, out, outp, m, err, runs, written>>

\* TIndex idx = indices[current]; CAFFE_ENFORCE(0 <= idx && idx < data_size)
EnforceIndex ==
  /\ pc = "enforce_idx"
  /\ IF IndexInRange(indices[current])
       THEN pc' = "axpy" /\ err' = err
       ELSE Throw("IndexOutOfRangeError")
  /\ UNCHANGED <<args, out, locals, runs, written>>

\* lines 63-79: w, b, TypedAxpy, the bias, ++current, ++i
Accumulate ==
  /\ pc = "axpy"
  /\ LET idx == indices[current]
         w0  == Weight(current)
         b   == Bias(w0, idx)
         w   == ScaledWeight(w0, idx)
         o1  == TypedAxpy(w, idx, out)
     IN  out' = IF scale_bias.null THEN o1 ELSE AddBias(b, o1)
  /\ written' = written \cup Slice
  /\ current' = current + 1
  /\ i' = i + 1
  /\ pc' = "for_i"
  /\ UNCHANGED <<args, outp, m, err, runs>>

\* lines 81-86: i == lengths[m]; the optional Scale; out += block_size; ++m
EndGroup ==
  /\ pc = "for_i"
  /\ ~(i < lengths[m])
  /\ IF normalize_by_lengths /\ lengths[m] # 0
       THEN /\ out' = Scale(ScaleFactor(lengths[m]), out)
            /\ written' = written \cup Slice
       ELSE UNCHANGED <<out, written>>
  /\ outp' = outp + block_size
  /\ m' = m + 1
  /\ pc' = "for_m"
  /\ UNCHANGED <<args, current, i, err, runs>>

\* the final check is left out
EnforceEqNoCheck ==
  /\ pc = "enforce_eq"
  /\ pc' = "done"
  /\ UNCHANGED <<args, out, locals, err, runs, written>>

\* CAFFE_ENFORCE_EQ(current, index_size, ...)
EnforceEq ==
  /\ pc = "enforce_eq"
  /\ IF current = index_size
       THEN pc' = "done" /\ err' = err
       ELSE Throw("LengthMismatchError")
  /\ UNCHANGED <<args, out, locals, runs, written>>
\* ---- the contract of one call (spec 4.1, 7) -----------------------------
Max0(x) == IF x < 0 THEN 0 ELSE x

\* entries consumed by the groups before group g
RECURSIVE Start(_)
Start(g) == IF g = 0 THEN 0 ELSE Start(g - 1) + Max0(lengths[g - 1])

Consumed == Start(output_size)

BadIndex(c) == ~(0 <= indices[c] /\ indices[c] < data_size)

\* the error of the first violation in processing order
ContractErr ==
  LET seen == IF Consumed < index_size THEN Consumed ELSE index_size
  IN  IF \E c \in 0 .. seen - 1 : BadIndex(c) THEN "IndexOutOfRangeError"
      ELSE IF Consumed > index_size THEN "CursorOverrunError"
      ELSE IF Consumed < index_size THEN "LengthMismatchError"
      ELSE "none"

\* what entry c adds to element j of its group: w*s*raw + w*b
Contribution(c, j) ==
  LET idx == indices[c]
      w   == IF weights.null THEN 1 ELSE weights.at[c]
      s   == IF scale_bias.null THEN 1 ELSE scale_bias.at[2 * idx]
      b   == IF scale_bias.null THEN 0 ELSE scale_bias.at[2 * idx + 1]
  IN  w * s * input[block_size * idx + j] + w * b

RECURSIVE SumOver(_, _, _)
SumOver(lo, hi, j) ==
  IF lo > hi THEN 0 ELSE Contribution(lo, j) + SumOver(lo + 1, hi, j)

GroupValue(g, j) ==
  LET sum == SumOver(Start(g), Start(g + 1) - 1, j)
  IN  IF normalize_by_lengths /\ lengths[g] # 0
        THEN Rat(sum, lengths[g])
        ELSE Int2Rat(sum)

\* ---- the accelerated kernel (external; same contract) -------------------
AcceleratedRun ==
  /\ runs' = Append(runs, "avx2_fma")
  /\ IF ContractErr = "none"
       THEN /\ out' = [k \in DOMAIN out |->
                         IF k < OutLen
                           THEN GroupValue(k \div block_size, k % block_size)
                           ELSE out[k]]
            /\ written' = 0 .. OutLen - 1
            /\ pc' = "done"
            /\ err' = err
       ELSE /\ Throw(ContractErr)
            /\ UNCHANGED <<out, written>>

\* ---- EMBEDDING_SPECIALIZATION, lines 96-161 -----------------------------
\* AVX2_FMA_DO(EmbeddingLookup_..., args): the accelerated kernel when the
\* CPU has AVX2 and FMA and the kernel takes this block_size
Avx2FmaDo ==
  /\ pc = "call"
  /\ IF avx2_fma /\ accel_applies
       THEN AcceleratedRun
       ELSE /\ pc' = "base_do"
            /\ UNCHANGED <<out, err, runs, written>>
  /\ UNCHANGED <<args, locals>>

\* no fallback once the accelerated kernel was tried
BaseDoUnlessDeclined ==
  /\ pc = "base_do"
  /\ IF avx2_fma
       THEN pc' = "done" /\ UNCHANGED <<runs, current>>
       ELSE runs' = Append(runs, "base") /\ current' = 0 /\ pc' = "for_m"
  /\ UNCHANGED <<args, out, outp, m, i, err, written>>

\* BASE_DO(EmbeddingLookup_..., args): the __base proxy calls
\* EmbeddingLookupGenericSlow with the same arguments; TIndex current = 0
BaseDo ==
  /\ pc = "base_do"
  /\ runs' = Append(runs, "base")
  /\ current' = 0
  /\ pc' = "for_m"
  /\ UNCHANGED <<args, out, outp, m, i, err, written>>

\* EmbeddingLookup_..__base and what it calls
NextBase ==
  \/ BaseDo
  \/ EnterGroup
  \/ ExitGroups
  \/ EnforceCursor
  \/ EnforceIndex
  \/ Accumulate
  \/ EndGroup
  \/ EnforceEq

Next ==
  \/ Avx2FmaDo
  \/ NextBase

Spec == Init /\ [][NextBase]_vars

SpecChecks == InitChecks /\ [][NextBase]_vars

SpecFacade == InitFacade /\ [][Next]_vars

\* ---- properties ---------------------------------------------------------
Terminal == pc \in {"done", "failed"}
Returned == pc = "done" /\ runs = <<"base">>
Groups == 0 .. output_size - 1
Cols == 0 .. block_size - 1

\* lengths[0] + ... + lengths[k-1]
RECURSIVE LengthSum(_)
LengthSum(k) == IF k = 0 THEN 0 ELSE LengthSum(k - 1) + lengths[k - 1]

\* valid input: lengths >= 0, sum(lengths) = index_size, indices in range
Valid ==
  /\ \A g \in Groups : lengths[g] >= 0
  /\ LengthSum(output_size) = index_size
  /\ \A c \in 0 .. index_size - 1 : 0 <= indices[c] /\ indices[c] < data_size

Plain == weights.null /\ scale_bias.null

\* element j of the sum of the table rows indices[lo], ..., indices[hi]
RECURSIVE RowSum(_, _, _)
RowSum(lo, hi, j) ==
  IF lo > hi THEN 0
  ELSE input[block_size * indices[lo] + j] + RowSum(lo + 1, hi, j)

GroupRowSum(g, j) == RowSum(LengthSum(g), LengthSum(g + 1) - 1, j)

\* C1: on valid input without weights, scale_bias and normalization the call
\* returns, and the slice of every group is the elementwise sum of the table
\* rows its index slice names
C1_GroupIsRowSum ==
  (Valid /\ Plain /\ ~normalize_by_lengths) =>
    /\ pc # "failed"
    /\ Returned =>
         \A g \in Groups : \A j \in Cols :
           out[g * block_size + j] = Int2Rat(GroupRowSum(g, j))

\* rows 0 and 1 of [[1,2],[3,4]] summed into [4,6], as in the spec's example
C1_Witness ==
  /\ Returned /\ Plain /\ ~normalize_by_lengths
  /\ block_size = 2 /\ data_size = 2 /\ index_size = 2 /\ output_size = 2
  /\ indices = [c \in 0 .. 1 |-> c]
  /\ lengths = [g \in 0 .. 1 |-> IF g = 0 THEN 2 ELSE 0]
  /\ out[0] = <<4, 1>> /\ out[1] = <<6, 1>>
  /\ out[2] = Zero /\ out[3] = Zero

\* C2: with normalize_by_lengths and no weights/scale_bias, a group of
\* lengths[m] > 0 is the row sum divided by lengths[m]; a group of
\* lengths[m] = 0 is all zeros whether the flag is set or not
C2_NormalizedMean ==
  (Valid /\ Plain /\ Returned) =>
    \A g \in Groups : \A j \in Cols :
      /\ (normalize_by_lengths /\ lengths[g] > 0) =>
           out[g * block_size + j] = Rat(GroupRowSum(g, j), lengths[g])
      /\ lengths[g] = 0 => out[g * block_size + j] = Zero

\* an empty group and a group of two rows: (row0 + row1) / 2 = [2, 3]
C2_Witness ==
  /\ Returned /\ Plain /\ normalize_by_lengths
  /\ block_size = 2 /\ data_size = 2 /\ index_size = 2 /\ output_size = 2
  /\ indices = [c \in 0 .. 1 |-> c]
  /\ lengths = [g \in 0 .. 1 |-> IF g = 0 THEN 0 ELSE 2]
  /\ out[0] = Zero /\ out[1] = Zero
  /\ out[2] = <<2, 1>> /\ out[3] = <<3, 1>>

\* C5: with a scale_bias table every consumed entry c adds
\* w*scale[idx]*table[idx][j] + w*bias[idx] to every element j of its group,
\* w the weight before rescaling, once per entry, for every block_size
RECURSIVE DequantSum(_, _, _)
DequantSum(lo, hi, j) ==
  IF lo > hi THEN 0
  ELSE LET idx == indices[lo]
           w   == IF weights.null THEN 1 ELSE weights.at[lo]
       IN  w * scale_bias.at[2 * idx] * input[block_size * idx + j]
             + w * scale_bias.at[2 * idx + 1]
             + DequantSum(lo + 1, hi, j)

C5_ScaleBias ==
  (Valid /\ ~scale_bias.null /\ ~normalize_by_lengths /\ Returned) =>
    \A g \in Groups : \A j \in Cols :
      out[g * block_size + j] =
        Int2Rat(DequantSum(LengthSum(g), LengthSum(g + 1) - 1, j))

\* weights [2,3], rows 0 and 1, scale_bias [2,3,4,5], block_size 2:
\* 2*2*[1,2] + 2*3 + 3*4*[3,4] + 3*5 = [61, 77]
C5_Witness ==
  /\ Returned /\ ~scale_bias.null /\ ~weights.null /\ ~normalize_by_lengths
  /\ block_size = 2 /\ data_size = 2 /\ index_size = 2 /\ output_size = 1
  /\ indices = [c \in 0 .. 1 |-> c]
  /\ lengths = [g \in 0 .. 0 |-> 2]
  /\ out[0] = <<61, 1>> /\ out[1] = <<77, 1>>

\* C8: a call that returns has stored to exactly out[0 .. output_size *
\* block_size), every element holds the value the inputs determine (whatever
\* the buffer held before), and no step changes an input buffer
C8_WrittenFully ==
  /\ [](Returned =>
         /\ written = 0 .. OutLen - 1
         /\ \A g \in Groups : \A j \in Cols :
              out[g * block_size + j] = GroupValue(g, j)
         /\ out[OutLen] = Int2Rat(fill))
  /\ [][UNCHANGED <<input, indices, lengths, weights, scale_bias>>]_vars

\* a buffer that held 9 everywhere, two groups written, the guard element kept
C8_Witness ==
  /\ Returned /\ fill = 9
  /\ block_size = 1 /\ output_size = 2 /\ index_size = 2
  /\ written = {0, 1}
  /\ out[0] # Int2Rat(9) /\ out[1] # Int2Rat(9) /\ out[2] = Int2Rat(9)
\* ---- validation (SpecChecks) --------------------------------------------
NonNegative == \A g \in Groups : lengths[g] >= 0
Bad(c) == indices[c] < 0 \/ indices[c] >= data_size
BadPositions == {c \in 0 .. index_size - 1 : Bad(c)}
Untouched == [k \in 0 .. OutLen |-> Int2Rat(fill)]

\* C3 as stated: whenever sum(lengths) # index_size the call fails with
\* LengthMismatchError
C3_AlwaysLengthMismatch ==
  (Terminal /\ LengthSum(output_size) # index_size) =>
    (pc = "failed" /\ err = "LengthMismatchError")

\* C3 amended: with lengths >= 0 and sum(lengths) # index_size the call
\* fails; with IndexOutOfRangeError when an entry it consumes is out of range,
\* else with CursorOverrunError when the lengths over-count, else (they
\* under-count) with LengthMismatchError
C3_MismatchFails ==
  (Terminal /\ NonNegative /\ LengthSum(output_size) # index_size) =>
    LET total == LengthSum(output_size)
        seen  == IF total < index_size THEN total ELSE index_size
    IN  /\ pc = "failed"
        /\ err = IF \E c \in 0 .. seen - 1 : Bad(c) THEN "IndexOutOfRangeError"
                 ELSE IF total > index_size THEN "CursorOverrunError"
                 ELSE "LengthMismatchError"

\* lengths [2,1] over two valid indices: the third entry overruns
C3_Witness ==
  /\ pc = "failed" /\ err = "CursorOverrunError"
  /\ output_size = 2 /\ index_size = 2 /\ BadPositions = {}
  /\ lengths = [g \in 0 .. 1 |-> IF g = 0 THEN 2 ELSE 1]
  /\ current = 2 /\ m = 1

\* C4 as stated: an out-of-range entry anywhere in the index sequence makes
\* the call fail with IndexOutOfRangeError
C4_AlwaysIndexOutOfRange ==
  (Terminal /\ BadPositions # {}) =>
    (pc = "failed" /\ err = "IndexOutOfRangeError")

\* C4 amended: an out-of-range entry makes the call fail; with
\* IndexOutOfRangeError when the lengths reach the first such entry (its
\* position is below the sum of the positive lengths), else with
\* LengthMismatchError
C4_BadIndexFails ==
  (Terminal /\ BadPositions # {}) =>
    LET first == CHOOSE c \in BadPositions : \A d \in BadPositions : c <= d
    IN  /\ pc = "failed"
        /\ err = IF first < Consumed THEN "IndexOutOfRangeError"
                 ELSE "LengthMismatchError"

\* a valid index, then index data_size, both consumed
C4_Witness ==
  /\ pc = "failed" /\ err = "IndexOutOfRangeError"
  /\ index_size = 2 /\ data_size = 2 /\ block_size = 1
  /\ indices = [c \in 0 .. 1 |-> IF c = 0 THEN 0 ELSE 2]
  /\ current = 1 /\ written = {0}

\* C7 as stated: with output_size = 0 or block_size = 0 the call stores
\* nothing and returns without an error
C7_NoOpNeverFails ==
  (output_size = 0 \/ block_size = 0) =>
    /\ written = {} /\ out = Untouched
    /\ pc # "failed"

\* C7 amended: with output_size = 0 or block_size = 0 the call stores
\* nothing, but its checks still run: it ends with the error of the first
\* violation, and with output_size = 0 it returns exactly when index_size = 0
C7_NoOpStoresNothing ==
  (output_size = 0 \/ block_size = 0) =>
    /\ written = {} /\ out = Untouched
    /\ Terminal => err = ContractErr
    /\ (Terminal /\ output_size = 0) => (pc = "done" <=> index_size = 0)

\* block_size = 0: two groups and two entries processed, nothing stored
C7_Witness ==
  /\ pc = "done" /\ block_size = 0 /\ output_size = 2
  /\ index_size = 2 /\ current = 2 /\ written = {}

\* C9: 0 <= current <= index_size always; an entry is accumulated only after
\* current < index_size and 0 <= indices[current] < data_size have passed;
\* current never decreases and grows by one per accumulated entry
C9_Cursor ==
  /\ [](/\ 0 <= current /\ current <= index_size
        /\ pc \in {"enforce_idx", "axpy"} => current < index_size
        /\ pc = "axpy" => (0 <= indices[current] /\ indices[current] < data_size))
  /\ [][\/ current' = current
        \/ pc = "axpy" /\ current' = current + 1]_vars

\* the second group starts accumulating at the cursor the first one left
C9_Witness ==
  /\ pc = "axpy" /\ m = 1 /\ i = 0 /\ current = 1 /\ index_size = 2

\* the first violation in processing order, and the cursor it is met at
RECURSIVE FirstViolation(_)
FirstViolation(c) ==
  IF c = Consumed
    THEN <<IF c = index_size THEN "none" ELSE "LengthMismatchError", c>>
  ELSE IF c >= index_size THEN <<"CursorOverrunError", c>>
  ELSE IF Bad(c) THEN <<"IndexOutOfRangeError", c>>
  ELSE FirstViolation(c + 1)

\* C10: the call ends with the error of the first violation met, the cursor
\* stays where it was met, the slices of the later groups are never stored
\* to, and nothing runs after a failure
C10_FailFast ==
  /\ [](Terminal =>
         /\ err = FirstViolation(0)[1]
         /\ current = FirstViolation(0)[2]
         /\ pc = "failed" =>
              \A k \in (m + 1) * block_size .. OutLen :
                k \notin written /\ out[k] = Int2Rat(fill))
  /\ [][pc # "failed"]_vars

\* one entry of group 0 accumulated, the next one out of range: group 1's
\* slice still holds what the caller left there
C10_Witness ==
  /\ pc = "failed" /\ err = "IndexOutOfRangeError"
  /\ output_size = 2 /\ block_size = 1 /\ m = 0 /\ current = 1
  /\ written = {0} /\ out[1] = Int2Rat(fill)

\* ---- dispatch (SpecFacade) ----------------------------------------------
\* C6: the facade stores nothing itself; exactly one implementation runs:
\* the accelerated one when the CPU has AVX2/FMA and the kernel takes the
\* block_size, else (no AVX2/FMA, or the kernel declined) the reference one,
\* on the same arguments and without an error from the dispatch
C6_Dispatch ==
  /\ pc \in {"call", "base_do"} =>
       runs = <<>> /\ written = {} /\ out = Untouched /\ err = "none"
  /\ pc \notin {"call", "base_do"} =>
       runs = <<IF avx2_fma /\ accel_applies THEN "avx2_fma" ELSE "base">>
  /\ (Terminal /\ runs = <<"base">>) => err = ContractErr
  /\ (Returned /\ Valid) =>
       \A g \in Groups : \A j \in Cols :
         out[g * block_size + j] = GroupValue(g, j)

\* AVX2/FMA present, the kernel declined, the reference engine produced the
\* output
C6_Witness ==
  /\ avx2_fma /\ ~accel_applies
  /\ Returned /\ written # {} /\ index_size = 2
====
